---- MODULE Spec2Model ----
(***************************************************************************)
(* A model of migrate.py: the SolarWinds CSV -> Datadog SNMP configuration *)
(* converter.                                                              *)
(*                                                                         *)
(* Text is a sequence of Unicode code points (<<83, 78, 77, 80>> is        *)
(* 'SNMP').  Python's None is the value None below, which is no text.      *)
(***************************************************************************)
EXTENDS Integers, Sequences, FiniteSets, TLC

(***************************************************************************)
(* Bounds of the model.                                                    *)
(***************************************************************************)
\* rows read from one CSV file by read_csv_file
MaxRows == 2
\* records handed to generate_multi_instance_config in SpecInstance
MaxConfigs == 1
\* length of a text handed to sanitize_tag / of a tag name in SpecTag
MaxTagLen == 3
\* length of a decoded header name in SpecHeader
MaxNameLen == 2
\* length of a Caption cell in SpecTags
MaxValueLen == 2

(***************************************************************************)
(* Python values.                                                          *)
(***************************************************************************)
None == << -1 >>

\* bool(x) of a cell: None and '' are falsy
Truthy(x) == x # None /\ x # << >>

\* the texts over alphabet A of length at most n
TextsUpTo(A, n) == UNION { [1..k -> A] : k \in 0..n }

(***************************************************************************)
(* Column names and literals of the program.                               *)
(***************************************************************************)
ObjectSubType == << 79, 98, 106, 101, 99, 116, 83, 117, 98, 84, 121, 112, 101 >>
IP_Address    == << 73, 80, 95, 65, 100, 100, 114, 101, 115, 115 >>
AgentPort     == << 65, 103, 101, 110, 116, 80, 111, 114, 116 >>
SNMPVersion   == << 83, 78, 77, 80, 86, 101, 114, 115, 105, 111, 110 >>
PollInterval  == << 80, 111, 108, 108, 73, 110, 116, 101, 114, 118, 97, 108 >>
Caption       == << 67, 97, 112, 116, 105, 111, 110 >>
Location      == << 76, 111, 99, 97, 116, 105, 111, 110 >>
SNMP          == << 83, 78, 77, 80 >>
ICMP          == << 73, 67, 77, 80 >>
Unknown       == << 85, 110, 107, 110, 111, 119, 110 >>

\* 'Caption,Location'
DEFAULT_TAG_COLUMNS == Caption \o << 44 >> \o Location

\* {'host', 'device', 'source', 'service', 'env', 'version', 'team'}
RESERVED_TAGS ==
    { << 104, 111, 115, 116 >>,
      << 100, 101, 118, 105, 99, 101 >>,
      << 115, 111, 117, 114, 99, 101 >>,
      << 115, 101, 114, 118, 105, 99, 101 >>,
      << 101, 110, 118 >>,
      << 118, 101, 114, 115, 105, 111, 110 >>,
      << 116, 101, 97, 109 >> }

\* 'sw_'
SwPrefix == << 115, 119, 95 >>

\* the port of an instance whose AgentPort is not given
DefaultPort == 161
\* the snmp_version of an instance whose SNMPVersion is not usable
DefaultVersion == 2

(***************************************************************************)
(* sanitize_value: latin-1 encode, UTF-8 decode with errors='replace';     *)
(* when a character has no latin-1 byte, drop the non-printable ones.      *)
(***************************************************************************)
\* U+FFFD, what the decoder puts for an undecodable byte sequence
Replacement == 65533

IsCont(b) == 128 <= b /\ b <= 191

\* the second byte a lead byte accepts (Unicode table 3-7)
SecondOk(lead, b) ==
    CASE lead = 224 -> 160 <= b /\ b <= 191
      [] lead = 237 -> 128 <= b /\ b <= 159
      [] lead = 240 -> 144 <= b /\ b <= 191
      [] lead = 244 -> 128 <= b /\ b <= 143
      [] OTHER      -> IsCont(b)

\* the number of bytes of the sequence a lead byte starts; 0: no lead byte
SeqLen(b) ==
    CASE b < 128               -> 1
      [] 194 <= b /\ b <= 223  -> 2
      [] 224 <= b /\ b <= 239  -> 3
      [] 240 <= b /\ b <= 244  -> 4
      [] OTHER                 -> 0

RECURSIVE Utf8Decode(_)
\* bytes.decode('utf-8', errors='replace'): one U+FFFD per maximal ill-formed
\* subpart
Utf8Decode(bs) ==
    IF bs = << >> THEN << >>
    ELSE
      LET b == bs[1]
          n == SeqLen(b)
          has2 == Len(bs) >= 2 /\ SecondOk(b, bs[2])
          has3 == has2 /\ Len(bs) >= 3 /\ IsCont(bs[3])
          has4 == has3 /\ Len(bs) >= 4 /\ IsCont(bs[4])
          Rest(k) == Utf8Decode(SubSeq(bs, k + 1, Len(bs)))
      IN CASE n = 1 -> << b >> \o Rest(1)
           [] n = 0 -> << Replacement >> \o Rest(1)
           [] n = 2 ->
                IF has2
                THEN << (b % 32) * 64 + (bs[2] % 64) >> \o Rest(2)
                ELSE << Replacement >> \o Rest(1)
           [] n = 3 ->
                IF has3
                THEN << (b % 16) * 4096 + (bs[2] % 64) * 64 + (bs[3] % 64) >>
                     \o Rest(3)
                ELSE << Replacement >> \o Rest(IF has2 THEN 2 ELSE 1)
           [] OTHER ->
                IF has4
                THEN << (b % 8) * 262144 + (bs[2] % 64) * 4096
                        + (bs[3] % 64) * 64 + (bs[4] % 64) >> \o Rest(4)
                ELSE << Replacement >>
                     \o Rest(IF has3 THEN 3 ELSE IF has2 THEN 2 ELSE 1)

\* code points above U+00FF that str.isprintable() rejects, among those the
\* model's alphabets hold (U+200B ZERO WIDTH SPACE, U+FEFF BOM)
NonPrintableAbove == { 8203, 65279 }

\* str.isprintable() of one character
IsPrintable(c) ==
    ~ ( c < 32 \/ (127 <= c /\ c <= 160) \/ c = 173 \/ c \in NonPrintableAbove )

RECURSIVE StripNonPrintable(_)
\* ''.join(char for char in value if char.isprintable())
StripNonPrintable(s) ==
    IF s = << >> THEN << >>
    ELSE (IF IsPrintable(Head(s)) THEN << Head(s) >> ELSE << >>)
         \o StripNonPrintable(Tail(s))

SanitizeValue(value) ==
    IF value = None THEN None
    ELSE IF \A i \in 1..Len(value) : value[i] <= 255
         THEN Utf8Decode(value)
         ELSE StripNonPrintable(value)

(***************************************************************************)
(* int(text)                                                               *)
(***************************************************************************)
\* the characters str.strip() and int() skip at both ends
SpaceChars == (9..13) \cup (28..32) \cup { 133, 160 }

IsDigit(c) == 48 <= c /\ c <= 57

RECURSIVE LStrip(_, _)
\* s.lstrip(chars)
LStrip(s, chars) ==
    IF s # << >> /\ Head(s) \in chars THEN LStrip(Tail(s), chars) ELSE s

RECURSIVE RStrip(_, _)
\* s.rstrip(chars)
RStrip(s, chars) ==
    IF s # << >> /\ s[Len(s)] \in chars
    THEN RStrip(SubSeq(s, 1, Len(s) - 1), chars)
    ELSE s

\* s.strip()
Strip(s) == RStrip(LStrip(s, SpaceChars), SpaceChars)

RECURSIVE DigitsValue(_, _)
\* the value of a run of digits and underscores, acc the value so far
DigitsValue(s, acc) ==
    IF s = << >> THEN acc
    ELSE IF Head(s) = 95 THEN DigitsValue(Tail(s), acc)
    ELSE DigitsValue(Tail(s), acc * 10 + (Head(s) - 48))

\* digits, single underscores only between two digits
WellFormedDigits(s) ==
    /\ s # << >>
    /\ \A i \in 1..Len(s) : IsDigit(s[i]) \/ s[i] = 95
    /\ IsDigit(s[1]) /\ IsDigit(s[Len(s)])
    /\ \A i \in 1..(Len(s) - 1) : ~ (s[i] = 95 /\ s[i + 1] = 95)

\* int(text): [ok |-> FALSE] is ValueError
ParseInt(text) ==
    LET t == Strip(text)
        signed == t # << >> /\ t[1] \in { 43, 45 }
        body == IF signed THEN Tail(t) ELSE t
    IN IF WellFormedDigits(body)
       THEN [ ok |-> TRUE,
              val |-> IF signed /\ t[1] = 45
                      THEN 0 - DigitsValue(body, 0)
                      ELSE DigitsValue(body, 0) ]
       ELSE [ ok |-> FALSE, val |-> 0 ]

(***************************************************************************)
(* sanitize_tag                                                            *)
(***************************************************************************)
\* [a-zA-Z0-9_\-:./]
TagCharOk(c) ==
    \/ (97 <= c /\ c <= 122) \/ (65 <= c /\ c <= 90) \/ IsDigit(c)
    \/ c \in { 95, 45, 58, 46, 47 }

RECURSIVE CollapseUnderscores(_)
\* re.sub(r'_+', '_', s)
CollapseUnderscores(s) ==
    IF Len(s) < 2 THEN s
    ELSE IF s[1] = 95 /\ s[2] = 95 THEN CollapseUnderscores(Tail(s))
    ELSE << s[1] >> \o CollapseUnderscores(Tail(s))

\* re.sub(r'[^a-zA-Z0-9_\-:./]', '_', text)
ReplaceInvalid(text) ==
    [ i \in 1..Len(text) |-> IF TagCharOk(text[i]) THEN text[i] ELSE 95 ]

\* sanitize_tag with its steps in the wrong order: the underscores stripped
\* before the invalid characters are replaced
SanitizeTagStripFirst(text) ==
    IF ~ Truthy(text) THEN text
    ELSE CollapseUnderscores(ReplaceInvalid(RStrip(LStrip(text, { 95 }), { 95 })))

SanitizeTag(text) ==
    IF ~ Truthy(text) THEN text
    ELSE RStrip(LStrip(CollapseUnderscores(ReplaceInvalid(text)), { 95 }), { 95 })

(***************************************************************************)
(* get_tags                                                                *)
(***************************************************************************)
RECURSIVE Split(_, _)
\* s.split(sep), sep one character
Split(s, sep) ==
    IF \A i \in 1..Len(s) : s[i] # sep THEN << s >>
    ELSE LET i == CHOOSE j \in 1..Len(s) :
                      s[j] = sep /\ \A k \in 1..(j - 1) : s[k] # sep
         IN << SubSeq(s, 1, i - 1) >> \o Split(SubSeq(s, i + 1, Len(s)), sep)

\* str.lower() of one character of Latin-1
LowerChar(c) ==
    IF (65 <= c /\ c <= 90) \/ (192 <= c /\ c <= 222 /\ c # 215)
    THEN c + 32 ELSE c

\* s.lower()
Lower(s) == [ i \in 1..Len(s) |-> LowerChar(s[i]) ]

\* row.get(key): a record is a function from its column names to its cells
Get(row, key) == IF key \in DOMAIN row THEN row[key] ELSE None

\* get_tags that forgets the check of line 185 on the sanitized parts
TagsOfSpecUnchecked(row, col_spec) ==
    LET parts == Split(col_spec, 58)
        col_name == Strip(parts[1])
        tag_name == IF Len(parts) > 1 THEN Lower(Strip(parts[2]))
                    ELSE Lower(col_name)
    IN IF col_name \in DOMAIN row /\ Truthy(row[col_name])
       THEN LET sanitized_name == SanitizeTag(tag_name)
                sanitized_value == SanitizeTag(row[col_name])
                sanitized_tag == IF sanitized_name \in RESERVED_TAGS
                                 THEN SwPrefix \o sanitized_name
                                 ELSE sanitized_name
            IN << sanitized_tag \o << 58 >> \o sanitized_value >>
       ELSE << >>

\* the body of get_tags' loop: the tags (none or one) of one column spec
TagsOfSpec(row, col_spec) ==
    LET parts == Split(col_spec, 58)
        col_name == Strip(parts[1])
        tag_name == IF Len(parts) > 1 THEN Lower(Strip(parts[2]))
                    ELSE Lower(col_name)
    IN IF col_name \in DOMAIN row /\ Truthy(row[col_name])
       THEN LET sanitized_name == SanitizeTag(tag_name)
                sanitized_value == SanitizeTag(row[col_name])
                sanitized_tag == IF sanitized_name \in RESERVED_TAGS
                                 THEN SwPrefix \o sanitized_name
                                 ELSE sanitized_name
            IN IF sanitized_tag # << >> /\ sanitized_value # << >>
               THEN << sanitized_tag \o << 58 >> \o sanitized_value >>
               ELSE << >>
       ELSE << >>

RECURSIVE TagsOfSpecs(_, _)
TagsOfSpecs(row, col_specs) ==
    IF col_specs = << >> THEN << >>
    ELSE TagsOfSpec(row, Head(col_specs)) \o TagsOfSpecs(row, Tail(col_specs))

\* get_tags(row, tag_columns): the list of 'name:value' texts
GetTags(row, tag_columns) == TagsOfSpecs(row, Split(tag_columns, 44))

(***************************************************************************)
(* get_snmp_auth_config                                                    *)
(*                                                                         *)
(* An optional command-line argument is << >> when not given (None) and    *)
(* << v >> when given the text v.                                          *)
(***************************************************************************)
\* x if x else placeholder
OrPlaceholder(arg, placeholder) ==
    IF arg # << >> /\ arg[1] # "" THEN arg[1] ELSE placeholder

\* the SNMPv3 variant
AuthV3(snmpv3_user, snmpv3_authprotocol, snmpv3_privprotocol) ==
    [ user |-> OrPlaceholder(snmpv3_user, "PLACEHOLDER_USER"),
      authProtocol |-> OrPlaceholder(snmpv3_authprotocol, "PLACEHOLDER_AUTHPROTOCOL"),
      authKey |-> "PLACEHOLDER_AUTHKEY",
      privProtocol |-> OrPlaceholder(snmpv3_privprotocol, "PLACEHOLDER_PRIVPROTOCOL"),
      privKey |-> "PLACEHOLDER_PRIVKEY" ]

\* get_snmp_auth_config that adds the community string to a version 3 instance
GetSnmpAuthConfigMixed(snmp_version, snmpv3_user, snmpv3_authprotocol, snmpv3_privprotocol) ==
    IF snmp_version \in { 1, 2 }
    THEN << [ community_string |-> "PLACEHOLDER_COMMUNITY_STRING" ] >>
    ELSE << [ community_string |-> "PLACEHOLDER_COMMUNITY_STRING" ]
            @@ AuthV3(snmpv3_user, snmpv3_authprotocol, snmpv3_privprotocol) >>

\* << the mapping returned >>, or << >> for the None returned when the version
\* is none of 1, 2, 3
GetSnmpAuthConfig(snmp_version, snmpv3_user, snmpv3_authprotocol, snmpv3_privprotocol) ==
    IF snmp_version \in { 1, 2 }
    THEN << [ community_string |-> "PLACEHOLDER_COMMUNITY_STRING" ] >>
    ELSE IF snmp_version = 3
    THEN << AuthV3(snmpv3_user, snmpv3_authprotocol, snmpv3_privprotocol) >>
    ELSE << >>

(***************************************************************************)
(* generate_multi_instance_config: the body of its loop                    *)
(***************************************************************************)
\* the version taken whatever integer the cell holds
SnmpVersionOfUnchecked(row) ==
    IF Truthy(Get(row, SNMPVersion)) /\ ParseInt(row[SNMPVersion]).ok
    THEN ParseInt(row[SNMPVersion]).val
    ELSE DefaultVersion

\* lines 220-227
SnmpVersionOf(row) ==
    IF Truthy(Get(row, SNMPVersion))
    THEN LET version == ParseInt(row[SNMPVersion])
         IN IF version.ok /\ version.val \in { 1, 2, 3 }
            THEN version.val
            ELSE DefaultVersion
    ELSE DefaultVersion

\* the interval kept when it is zero or negative too
MinCollectionIntervalOfAnySign(row) ==
    IF Truthy(Get(row, PollInterval)) /\ ParseInt(row[PollInterval]).ok
    THEN << ParseInt(row[PollInterval]).val >>
    ELSE << >>

\* lines 232-239: << >> is None, << n >> the interval n
MinCollectionIntervalOf(row) ==
    IF Truthy(Get(row, PollInterval))
    THEN LET interval == ParseInt(row[PollInterval])
         IN IF interval.ok /\ interval.val > 0
            THEN << interval.val >>
            ELSE << >>
    ELSE << >>

\* the port defaulted when the cell is no integer
PortOfLenient(row) ==
    IF Get(row, AgentPort) # None /\ Get(row, AgentPort) # << >>
       /\ ParseInt(row[AgentPort]).ok
    THEN ParseInt(row[AgentPort])
    ELSE [ ok |-> TRUE, val |-> DefaultPort ]

\* line 243: [ok |-> FALSE] is the ValueError of int()
PortOf(row) ==
    IF Get(row, AgentPort) # None /\ Get(row, AgentPort) # << >>
    THEN ParseInt(row[AgentPort])
    ELSE [ ok |-> TRUE, val |-> DefaultPort ]

\* the address check that forgets the empty cell
SkipsRowAbsentOnly(row) == IP_Address \notin DOMAIN row

\* line 212
SkipsRow(row) == ~ Truthy(Get(row, IP_Address))

\* lines 216-251 for a row that is not skipped: the instance, or the
\* exception raised
BuildInstance(row, a) ==
    LET tags == GetTags(row, a.tag_columns)
        snmp_version == SnmpVersionOf(row)
        snmp_auth == GetSnmpAuthConfig(snmp_version, a.user, a.authprotocol,
                                       a.privprotocol)
        min_collection_interval == MinCollectionIntervalOf(row)
        port == PortOf(row)
    IN IF ~ port.ok THEN [ raised |-> "ValueError" ]
       ELSE IF snmp_auth = << >> THEN [ raised |-> "TypeError" ]
       ELSE [ raised |-> "",
              instance |->
                  [ ip_address |-> row[IP_Address],
                    port |-> port.val,
                    snmp_version |-> snmp_version ]
                  @@ snmp_auth[1]
                  @@ [ tags |-> tags ]
                  @@ (IF min_collection_interval # << >>
                      THEN [ min_collection_interval |->
                                 min_collection_interval[1] ]
                      ELSE << >>) ]

(***************************************************************************)
(* The state of one run of main().                                         *)
(***************************************************************************)
VARIABLES
    pc,             \* where the run is: open, rows, generate, emit, done,
                    \* cancelled, error
    exc,            \* the exception that ended the run, "" when none
    args,           \* parse_arguments(): user, authprotocol, privprotocol,
                    \* tag_columns
    header,         \* the decoded header line of the CSV file
    fieldnames,     \* csvreader.fieldnames
    rows,           \* the rows of cells the reader has yielded so far
    sanitized_row,  \* read_csv_file's sanitized_row of the latest row
    total_rows,     \* read_csv_file's total_rows
    device_types,   \* read_csv_file's device_types
    configs,        \* the retained records
    report,         \* what read_csv_file printed at the end of its pass
    cursor,         \* the records generate_multi_instance_config has consumed
    instances,      \* generate_multi_instance_config's instances
    skipped_rows,   \* generate_multi_instance_config's skipped_rows
    skip_message,   \* the count printed to stderr, << >> when none was
    config,         \* the document returned, << >> before
    emitted,        \* the documents written to the file or to stdout
    tag_text,       \* the text handed to sanitize_tag, then its result
    tag_history     \* the texts sanitize_tag was called on, in order

vars == << pc, exc, args, header, fieldnames, rows, sanitized_row, total_rows,
           device_types, configs, report, cursor, instances, skipped_rows,
           skip_message, config, emitted, tag_text, tag_history >>

readVars == << fieldnames, rows, sanitized_row, total_rows, device_types,
               configs, report >>
genVars == << cursor, instances, skipped_rows, skip_message, config >>
tagVars == << tag_text, tag_history >>

(***************************************************************************)
(* read_csv_file                                                           *)
(***************************************************************************)
\* lines 102-106: the header names sanitized and put back
SanitizeFieldnames ==
    /\ pc = "open"
    /\ fieldnames' = [ i \in 1..Len(header) |-> SanitizeValue(header[i]) ]
    /\ pc' = "rows"
    /\ UNCHANGED << exc, args, header, rows, sanitized_row, total_rows,
                    device_types, configs, report, emitted >>
    /\ UNCHANGED genVars /\ UNCHANGED tagVars

\* csv.DictReader's row for the cells of one line: a short line leaves the
\* last columns None, and of two columns of one name the last one counts
RowDictValue(names, cells, key) ==
    LET i == CHOOSE j \in 1..Len(names) :
                 names[j] = key /\ \A k \in (j + 1)..Len(names) : names[k] # key
    IN IF i <= Len(cells) THEN cells[i] ELSE None

\* the place of a key in the row's dict: where it was first inserted
FirstIndex(names, key) ==
    CHOOSE j \in 1..Len(names) :
        names[j] = key /\ \A k \in 1..(j - 1) : names[k] # key

\* line 117: the row's key, a name of csvreader.fieldnames, sanitized again
RowKey(key) == SanitizeValue(key)

\* row_dict.items(): each distinct name once, in the order of first insertion
RowDictItems(names, cells) ==
    LET firsts == SelectSeq([ i \in 1..Len(names) |-> i ],
                            LAMBDA i : FirstIndex(names, names[i]) = i)
    IN [ j \in 1..Len(firsts) |->
             << names[firsts[j]], RowDictValue(names, cells, names[firsts[j]]) >> ]

RECURSIVE SanitizeItems(_, _)
\* lines 115-119: each item stored under its sanitized key, a later item of
\* the same sanitized key replacing an earlier one
SanitizeItems(items, sanitized) ==
    IF items = << >> THEN sanitized
    ELSE SanitizeItems(Tail(items),
                       (RowKey(items[1][1]) :> SanitizeValue(items[1][2]))
                       @@ sanitized)

\* lines 110-119: sanitized_row of the cells of one line
SanitizedRowOf(names, cells) ==
    SanitizeItems(RowDictItems(names, cells), << >>)

\* line 122: sanitized_row.get('ObjectSubType', 'Unknown')
DeviceTypeOf(row) ==
    IF ObjectSubType \in DOMAIN row THEN row[ObjectSubType] ELSE Unknown

\* the filter that keeps every record
RetainsAll(device_type) == TRUE

\* line 124
Retains(device_type) == device_type = SNMP

\* '10.0.0.5', '10.0.0.6'
Ip == << 49, 48, 46, 48, 46, 48, 46, 53 >>
Ip2 == << 49, 48, 46, 48, 46, 48, 46, 54 >>

\* the cells a line may hold in a column, by the column's decoded name
CellsOf(name) ==
    IF name = ObjectSubType THEN { SNMP, ICMP }
    ELSE IF name = IP_Address
    THEN { Ip, Ip2, << >> }
    ELSE IF name = AgentPort THEN { << >>, << 56 >>, << 97, 98, 99 >> }
    ELSE { << >>, << 118 >> }

RECURSIVE LinesOfLength(_, _)
\* the lines of n cells, each cell one its column may hold
LinesOfLength(names, n) ==
    IF n = 0 THEN { << >> }
    ELSE { Append(cells, c) : cells \in LinesOfLength(names, n - 1),
                              c \in CellsOf(names[n]) }

\* the lines a file with this header may hold: one cell at least (the
\* reader skips blank lines), no more cells than columns
LinesOf(names) == UNION { LinesOfLength(names, n) : n \in 1..Len(names) }

\* lines 108-125: one turn of the loop over the reader
ReadRow ==
    /\ pc = "rows"
    /\ total_rows < MaxRows
    /\ \E cells \in LinesOf(header) :
         LET row == SanitizedRowOf(fieldnames, cells)
             device_type == DeviceTypeOf(row)
         IN /\ rows' = Append(rows, cells)
            /\ total_rows' = total_rows + 1
            /\ sanitized_row' = row
            /\ device_types' =
                   IF device_type \in DOMAIN device_types
                   THEN [ device_types EXCEPT ![device_type] = @ + 1 ]
                   ELSE device_types @@ (device_type :> 1)
            /\ configs' = IF Retains(device_type)
                          THEN Append(configs, row)
                          ELSE configs
    /\ UNCHANGED << pc, exc, args, header, fieldnames, report, emitted >>
    /\ UNCHANGED genVars /\ UNCHANGED tagVars

\* lines 127-137 (and 56-58): opening or decoding the file fails, the
\* exception is printed and raised again
ReadRaises ==
    /\ pc \in { "open", "rows" }
    /\ \E e \in { "FileNotFoundError", "UnicodeDecodeError" } :
         /\ e = "FileNotFoundError" => pc = "open"
         /\ exc' = e
    /\ pc' = "error"
    /\ UNCHANGED << args, header, emitted >>
    /\ UNCHANGED readVars /\ UNCHANGED genVars /\ UNCHANGED tagVars

RECURSIVE TextLess(_, _)
\* s < t of two Python str
TextLess(s, t) ==
    IF t = << >> THEN FALSE
    ELSE IF s = << >> THEN TRUE
    ELSE IF Head(s) # Head(t) THEN Head(s) < Head(t)
    ELSE TextLess(Tail(s), Tail(t))

RECURSIVE SortedTexts(_)
\* sorted(S) of a set of str
SortedTexts(S) ==
    IF S = { } THEN << >>
    ELSE LET least == CHOOSE s \in S : \A t \in S \ { s } : TextLess(s, t)
         IN << least >> \o SortedTexts(S \ { least })

\* sorted() of the tally's items raises TypeError when it has to compare None
\* with a str: when None is one of two categories or more
SortRaises(types) == None \in DOMAIN types /\ Cardinality(DOMAIN types) > 1

\* the lines 'category: count' printed, in the order printed
TallyLines(types) ==
    LET keys == IF None \in DOMAIN types THEN << None >>
                ELSE SortedTexts(DOMAIN types)
    IN [ i \in 1..Len(keys) |-> << keys[i], types[keys[i]] >> ]

\* lines 139-143: the reader is exhausted; the total and the sorted tally are
\* printed and the retained records returned
Report ==
    /\ pc = "rows"
    /\ IF SortRaises(device_types)
       THEN /\ report' = [ total |-> total_rows ]
            /\ exc' = "TypeError"
            /\ pc' = "error"
       ELSE /\ report' = [ total |-> total_rows,
                           tally |-> TallyLines(device_types) ]
            /\ exc' = exc
            /\ pc' = "generate"
    /\ UNCHANGED << args, header, fieldnames, rows, sanitized_row, total_rows,
                    device_types, configs, emitted >>
    /\ UNCHANGED genVars /\ UNCHANGED tagVars

(***************************************************************************)
(* generate_multi_instance_config                                          *)
(***************************************************************************)
\* lines 210-253: one turn of the loop over configs
GenRow ==
    /\ pc = "generate"
    /\ cursor < Len(configs)
    /\ LET row == configs[cursor + 1]
           built == BuildInstance(row, args)
       IN IF SkipsRow(row)
          THEN /\ skipped_rows' = skipped_rows + 1
               /\ UNCHANGED << instances, pc, exc >>
          ELSE IF built.raised # ""
          THEN /\ pc' = "error"
               /\ exc' = built.raised
               /\ UNCHANGED << instances, skipped_rows >>
          ELSE /\ instances' = Append(instances, built.instance)
               /\ UNCHANGED << skipped_rows, pc, exc >>
    /\ cursor' = cursor + 1
    /\ UNCHANGED << args, header, skip_message, config, emitted >>
    /\ UNCHANGED readVars /\ UNCHANGED tagVars

\* lines 255-265: the skip count goes to stderr, the document is returned
GenReturn ==
    /\ pc = "generate"
    /\ cursor = Len(configs)
    /\ skip_message' = IF skipped_rows > 0 THEN << skipped_rows >> ELSE << >>
    /\ config' = [ init_config |-> [ loader |-> "core",
                                     use_device_id_as_hostname |-> TRUE ],
                   instances |-> instances ]
    /\ pc' = "emit"
    /\ UNCHANGED << exc, args, header, cursor, instances, skipped_rows,
                    emitted >>
    /\ UNCHANGED readVars /\ UNCHANGED tagVars

(***************************************************************************)
(* main: the document goes to the output file or to standard output        *)
(***************************************************************************)
\* lines 295-297 and write_yaml_file: the file is written unless it exists
\* and the overwrite is declined, which exits with status 0
WriteYamlFile ==
    /\ pc = "emit"
    /\ \E overwrite \in BOOLEAN :
         IF overwrite
         THEN /\ emitted' = Append(emitted, [ to |-> "file", document |-> config ])
              /\ pc' = "done"
         ELSE /\ emitted' = emitted
              /\ pc' = "cancelled"
    /\ UNCHANGED << exc, args, header >>
    /\ UNCHANGED readVars /\ UNCHANGED genVars /\ UNCHANGED tagVars

\* lines 298-299
PrintYaml ==
    /\ pc = "emit"
    /\ emitted' = Append(emitted, [ to |-> "stdout", document |-> config ])
    /\ pc' = "done"
    /\ UNCHANGED << exc, args, header >>
    /\ UNCHANGED readVars /\ UNCHANGED genVars /\ UNCHANGED tagVars

(***************************************************************************)
(* sanitize_tag called on its own result                                   *)
(***************************************************************************)
SanitizeTagCall ==
    /\ pc = "sanitize_tag"
    /\ Len(tag_history) < 2
    /\ tag_history' = Append(tag_history, tag_text)
    /\ tag_text' = SanitizeTag(tag_text)
    /\ UNCHANGED << pc, exc, args, header, emitted >>
    /\ UNCHANGED readVars /\ UNCHANGED genVars

(***************************************************************************)
(* The specifications.                                                     *)
(***************************************************************************)
NoArgs == [ user |-> << >>, authprotocol |-> << >>, privprotocol |-> << >>,
            tag_columns |-> DEFAULT_TAG_COLUMNS ]

\* nothing read yet
ReadIdle ==
    /\ fieldnames = << >>
    /\ rows = << >>
    /\ sanitized_row = << >>
    /\ total_rows = 0
    /\ device_types = << >>
    /\ report = << >>

\* generate_multi_instance_config not entered yet
GenIdle ==
    /\ cursor = 0
    /\ instances = << >>
    /\ skipped_rows = 0
    /\ skip_message = << >>
    /\ config = << >>
    /\ emitted = << >>

TagIdle ==
    /\ tag_text = << >>
    /\ tag_history = << >>

\* ---- Spec: a whole run of main() on a file of at most MaxRows lines ----
Headers ==
    { << ObjectSubType, IP_Address, AgentPort >>,
      << IP_Address, AgentPort, ObjectSubType >>,
      << IP_Address, AgentPort >> }

Init ==
    /\ pc = "open"
    /\ exc = ""
    /\ args = NoArgs
    /\ header \in Headers
    /\ configs = << >>
    /\ ReadIdle /\ GenIdle /\ TagIdle

Next ==
    \/ SanitizeFieldnames
    \/ ReadRow
    \/ ReadRaises
    \/ Report
    \/ GenRow
    \/ GenReturn
    \/ WriteYamlFile
    \/ PrintYaml

Spec == Init /\ [][Next]_vars

\* ---- SpecHeader: read_csv_file on a file of one column of any name ----
\* A, BEL, the bytes of UTF-8 'e acute' read as Latin-1, 'e acute', the euro
\* sign, U+FFFD
HeaderAlphabet == { 65, 7, 195, 169, 233, 8364, 65533 }

InitHeader ==
    /\ pc = "open"
    /\ exc = ""
    /\ args = NoArgs
    /\ header \in { << h >> : h \in TextsUpTo(HeaderAlphabet, MaxNameLen) }
    /\ configs = << >>
    /\ ReadIdle /\ GenIdle /\ TagIdle

NextHeader ==
    \/ SanitizeFieldnames
    \/ ReadRow
    \/ ReadRaises
    \/ Report

SpecHeader == InitHeader /\ [][NextHeader]_vars

\* ---- SpecInstance: generate_multi_instance_config on retained records ----
\* a column absent from the record, or present with one of these cells
OptionalColumn(name, cells) ==
    { << >> } \cup { name :> c : c \in cells }

\* '', '1', '2', '3', '7', 'x', ' 3', '-1', None
VersionCells ==
    { << >>, << 49 >>, << 50 >>, << 51 >>, << 55 >>, << 120 >>, << 32, 51 >>,
      << 45, 49 >>, None }

\* '', '-5', '0', '30', 'x', '+7', None
IntervalCells ==
    { << >>, << 45, 53 >>, << 48 >>, << 51, 48 >>, << 120 >>, << 43, 55 >>,
      None }

InstanceRecords ==
    { (IP_Address :> Ip) @@ v @@ i :
          v \in OptionalColumn(SNMPVersion, VersionCells),
          i \in OptionalColumn(PollInterval, IntervalCells) }
    \cup { IP_Address :> << >>,
           SNMPVersion :> << 51 >>,
           (IP_Address :> Ip) @@ (AgentPort :> << 97, 98, 99 >>),
           (IP_Address :> Ip) @@ (AgentPort :> << 56 >>) @@ (SNMPVersion :> << 51 >>) }

InstanceArgs ==
    [ user : { << >>, << "" >>, << "admin" >> },
      authprotocol : { << >>, << "SHA" >> },
      privprotocol : { << >>, << "AES" >> },
      tag_columns : { DEFAULT_TAG_COLUMNS } ]

\* the reader has returned
ReadDone ==
    /\ fieldnames = << >>
    /\ rows = << >>
    /\ sanitized_row = << >>
    /\ total_rows = Len(configs)
    /\ device_types = IF configs = << >> THEN << >>
                      ELSE (SNMP :> Len(configs))
    /\ report = [ total |-> total_rows, tally |-> TallyLines(device_types) ]

InitInstance ==
    /\ pc = "generate"
    /\ exc = ""
    /\ args \in InstanceArgs
    /\ header = << >>
    /\ configs \in UNION { [ 1..n -> InstanceRecords ] : n \in 1..MaxConfigs }
    /\ ReadDone /\ GenIdle /\ TagIdle

NextGenerate ==
    \/ GenRow
    \/ GenReturn
    \/ WriteYamlFile
    \/ PrintYaml

SpecInstance == InitInstance /\ [][NextGenerate]_vars

\* ---- SpecTags: generate_multi_instance_config with --tag-columns ----
Env == << 69, 110, 118 >>

\* a, A, _, !
TagNameAlphabet == { 97, 65, 95, 33 }

\* names that sanitize to a reserved name: 'env', 'Host', '_env_', '!team ',
\* ' version'
ReservedLike ==
    { << 101, 110, 118 >>, << 72, 111, 115, 116 >>,
      << 95, 101, 110, 118, 95 >>, << 33, 116, 101, 97, 109, 32 >>,
      << 32 >> \o << 118, 101, 114, 115, 105, 111, 110 >> }

\* 'a!!a', 'a_ _a', 'a.b/c-d'
LongNames ==
    { << 97, 33, 33, 97 >>, << 97, 95, 32, 95, 97 >>,
      << 97, 46, 98, 47, 99, 45, 100 >> }

TagNames == TextsUpTo(TagNameAlphabet, MaxTagLen) \cup ReservedLike \cup LongNames

\* 'Caption', ' Env ' (lower-cased, a reserved name), 'Location' (no column
\* of the records)
TagColumns == { Caption, << 32 >> \o Env \o << 32 >>, Location }

\* 'column', 'column:name', and lists of two
TagColumnSpecs ==
    TagColumns
    \cup { c \o << 58 >> \o n : c \in { Caption, << 32 >> \o Env \o << 32 >> },
                                 n \in TagNames }
    \cup { DEFAULT_TAG_COLUMNS,
           << >>,
           Caption \o << 44 >> \o Caption,
           Caption \o << 58, 97, 58, 98 >>,
           Env \o << 44 >> \o Caption \o << 58, 95 >> }

\* a, _, !
TagValueAlphabet == { 97, 95, 33 }

TagRecords ==
    { (IP_Address :> Ip) @@ (Caption :> c) @@ (Env :> << 112, 58, 113 >>) :
          c \in TextsUpTo(TagValueAlphabet, MaxValueLen) \cup { None } }

InitTags ==
    /\ pc = "generate"
    /\ exc = ""
    /\ args \in [ user : { << >> }, authprotocol : { << >> },
                  privprotocol : { << >> }, tag_columns : TagColumnSpecs ]
    /\ header = << >>
    /\ configs \in { << r >> : r \in TagRecords }
    /\ ReadDone /\ GenIdle /\ TagIdle

SpecTags == InitTags /\ [][NextGenerate]_vars

\* ---- SpecSanitizeTag: sanitize_tag applied, then applied to its result ----
\* a, _, !, -, :, 'e acute'
SanitizeTagAlphabet == { 97, 95, 33, 45, 58, 233 }

InitSanitizeTag ==
    /\ pc = "sanitize_tag"
    /\ exc = ""
    /\ args = NoArgs
    /\ header = << >>
    /\ configs = << >>
    /\ ReadIdle /\ GenIdle
    /\ tag_text \in TextsUpTo(SanitizeTagAlphabet, MaxTagLen)
    /\ tag_history = << >>

NextSanitizeTag == SanitizeTagCall

SpecSanitizeTag == InitSanitizeTag /\ [][NextSanitizeTag]_vars

(***************************************************************************)
(* The properties.                                                         *)
(***************************************************************************)
\* the record has an address: its IP_Address cell is present and not empty
HasAddress(r) == Get(r, IP_Address) # None /\ Get(r, IP_Address) # << >>

\* the record's AgentPort cell is present, not empty and no integer
BadPort(r) ==
    /\ Get(r, AgentPort) # None
    /\ Get(r, AgentPort) # << >>
    /\ ~ ParseInt(r[AgentPort]).ok

\* the records consumed so far that have an address: the k-th instance is
\* built from the k-th of them
Yielding == SelectSeq(SubSeq(configs, 1, cursor), HasAddress)

\* C1: when a retained record with an address has an AgentPort cell that is
\* present, not empty and no integer, the run ends in error: the loop over
\* the records never gets past that record, no document is returned, and
\* nothing is written to the file or to standard output
C1_BadPortAborts ==
    \A i \in 1..Len(configs) :
        (HasAddress(configs[i]) /\ BadPort(configs[i]))
        => /\ emitted = << >>
           /\ config = << >>
           /\ pc \in { "rows", "generate", "error" }
           /\ pc = "generate" => cursor < i
           /\ cursor >= i => pc = "error"

\* C1 happens: the run ended with the ValueError of the port after an
\* instance had been built from an earlier record
C1_Witness ==
    /\ pc = "error"
    /\ exc = "ValueError"
    /\ Len(instances) >= 1
    /\ BadPort(configs[cursor])
    /\ emitted = << >>

\* the records among the first n that have no address
Addressless(n) == { i \in 1..n : ~ HasAddress(configs[i]) }

\* C2: no instance is built from a record whose IP_Address is absent or
\* empty, every instance has a non-empty ip_address, and the skip counter is
\* the number of such records: after the pass, instances + skipped = records
C2_SkipsCounted ==
    /\ \A k \in 1..Len(instances) :
           /\ instances[k].ip_address # None
           /\ instances[k].ip_address # << >>
    /\ skipped_rows = Cardinality(Addressless(cursor))
    /\ Len(instances) <= cursor - Cardinality(Addressless(cursor))
    /\ pc \in { "emit", "done", "cancelled" }
       => /\ cursor = Len(configs)
          /\ skipped_rows = Cardinality(Addressless(Len(configs)))
          /\ Len(instances) + skipped_rows = Len(configs)
          /\ skip_message = IF skipped_rows > 0 THEN << skipped_rows >>
                            ELSE << >>

\* C2 happens: a pass ended that built an instance and skipped a record
C2_Witness ==
    /\ pc = "emit"
    /\ Len(instances) >= 1
    /\ skipped_rows >= 1
    /\ \E i \in 1..Len(configs) : Get(configs[i], IP_Address) = None

V3Keys == { "user", "authProtocol", "authKey", "privProtocol", "privKey" }

\* the value an override gives a key: the override when given and not
\* empty, the placeholder otherwise
Overridden(arg, placeholder) ==
    IF arg \in { << >>, << "" >> } THEN placeholder ELSE arg[1]

\* C3: an instance of version 1 or 2 holds community_string and none of the
\* five version 3 keys; an instance of version 3 holds the five and no
\* community_string; the overrides only set the values of user, authProtocol
\* and privProtocol of a version 3 instance
C3_AuthShape ==
    \A k \in 1..Len(instances) :
        LET inst == instances[k]
        IN /\ inst.snmp_version \in { 1, 2, 3 }
           /\ inst.snmp_version \in { 1, 2 }
              => /\ "community_string" \in DOMAIN inst
                 /\ DOMAIN inst \cap V3Keys = { }
                 /\ inst.community_string = "PLACEHOLDER_COMMUNITY_STRING"
           /\ inst.snmp_version = 3
              => /\ V3Keys \subseteq DOMAIN inst
                 /\ "community_string" \notin DOMAIN inst
                 /\ inst.user = Overridden(args.user, "PLACEHOLDER_USER")
                 /\ inst.authProtocol
                    = Overridden(args.authprotocol, "PLACEHOLDER_AUTHPROTOCOL")
                 /\ inst.privProtocol
                    = Overridden(args.privprotocol, "PLACEHOLDER_PRIVPROTOCOL")
                 /\ inst.authKey = "PLACEHOLDER_AUTHKEY"
                 /\ inst.privKey = "PLACEHOLDER_PRIVKEY"

\* C3 happens: a version 3 instance built with the user overridden and the
\* protocols not
C3_Witness ==
    /\ Len(instances) >= 1
    /\ instances[1].snmp_version = 3
    /\ args.user = << "admin" >>
    /\ args.authprotocol = << >>
    /\ instances[1].user = "admin"

\* the name of a tag 'name:value': what stands before its first colon
TagName(tag) == Split(tag, 58)[1]

\* the value of a tag 'name:value': what stands after its first colon
TagValue(tag) == SubSeq(tag, Len(TagName(tag)) + 2, Len(tag))

\* C4: every tag has a name that is not empty, holds only characters of
\* [A-Za-z0-9_-:./] and no double underscore, and a value that is not empty
C4_TagsWellFormed ==
    \A k \in 1..Len(instances) :
        \A t \in 1..Len(instances[k].tags) :
            LET tag == instances[k].tags[t]
                name == TagName(tag)
            IN /\ Len(name) < Len(tag)
               /\ name # << >>
               /\ \A i \in 1..Len(name) : TagCharOk(name[i])
               /\ \A i \in 1..(Len(name) - 1) :
                      ~ (name[i] = 95 /\ name[i + 1] = 95)
               /\ TagValue(tag) # << >>

\* C4 happens: of the specs 'Env' and 'Caption:_' the first gave a tag under
\* the prefixed reserved name, the second, whose name sanitizes to nothing,
\* gave none though the Caption cell is 'a'
C4_Witness ==
    /\ args.tag_columns = Env \o << 44 >> \o Caption \o << 58, 95 >>
    /\ Len(instances) = 1
    /\ configs[1][Caption] = << 97 >>
    /\ instances[1].tags = << SwPrefix \o << 101, 110, 118, 58, 112, 58, 113 >> >>

\* the subtype cell of the i-th line read is missing: no column of that name,
\* or a line too short to reach it
SubtypeMissing(i) ==
    \A j \in 1..Len(header) : header[j] = ObjectSubType => j > Len(rows[i])

\* the sanitized records of the lines read
Records == [ i \in 1..Len(rows) |-> SanitizedRowOf(fieldnames, rows[i]) ]

\* a record the filter and the address check let through
Survives(r) == Get(r, ObjectSubType) = SNMP /\ HasAddress(r)

\* the port an instance of the record has
ExpectedPort(r) ==
    IF Get(r, AgentPort) \in { None, << >> } THEN DefaultPort
    ELSE ParseInt(r[AgentPort]).val

\* C5: the instances of a document are the records read whose subtype is
\* 'SNMP' and whose address is not empty, one each, in the order read; a
\* record of another subtype gives no instance and no error: a run ends in
\* error only when the file cannot be read, a port is no integer, or a line
\* has no subtype cell
C5_InstancesAreSurvivors ==
    /\ pc \in { "emit", "done", "cancelled" }
       => LET survivors == SelectSeq(Records, Survives)
          IN /\ Len(config.instances) = Len(survivors)
             /\ \A k \in 1..Len(survivors) :
                    /\ config.instances[k].ip_address = survivors[k][IP_Address]
                    /\ config.instances[k].port = ExpectedPort(survivors[k])
             /\ \A e \in 1..Len(emitted) : emitted[e].document = config
    /\ pc = "error"
       => \/ exc \in { "FileNotFoundError", "UnicodeDecodeError" }
          \/ exc = "ValueError" /\ BadPort(configs[cursor])
          \/ exc = "TypeError" /\ \E i \in 1..Len(rows) : SubtypeMissing(i)
    /\ \A i \in 1..Len(configs) : Get(configs[i], ObjectSubType) = SNMP

\* C5 happens: a document of two instances of different addresses was
\* written, in the order of the lines
C5_Witness ==
    /\ pc = "done"
    /\ Len(emitted) = 1
    /\ Len(emitted[1].document.instances) = 2
    /\ emitted[1].document.instances[1].ip_address = Ip2
    /\ emitted[1].document.instances[2].ip_address = Ip

\* the count the tally holds for a category
Tally(category) ==
    IF category \in DOMAIN device_types THEN device_types[category] ELSE 0

RECURSIVE SumOf(_, _)
SumOf(f, keys) ==
    IF keys = { } THEN 0
    ELSE LET k == CHOOSE x \in keys : TRUE
         IN f[k] + SumOf(f, keys \ { k })

\* C6: every record whose subtype is missing is counted under 'Unknown' and
\* not retained, every record is counted once, and the reader completes
\* normally: it reports the total and the sorted tally and returns
C6_MissingSubtypeIsUnknown ==
    /\ Tally(Unknown) = Cardinality({ i \in 1..Len(rows) : SubtypeMissing(i) })
    /\ SumOf(device_types, DOMAIN device_types) = total_rows
    /\ Len(configs) <= Len(rows)
          - Cardinality({ i \in 1..Len(rows) : SubtypeMissing(i) })
    /\ exc # "TypeError"
    /\ pc \in { "generate", "emit", "done", "cancelled" }
       => /\ report.total = total_rows
          /\ Len(report.tally) = Cardinality(DOMAIN device_types)

\* the version an instance of the record has: the integer of its SNMPVersion
\* cell when that is 1, 2 or 3, and 2 otherwise
ExpectedVersion(r) ==
    IF /\ Get(r, SNMPVersion) # None
       /\ ParseInt(r[SNMPVersion]).ok
       /\ ParseInt(r[SNMPVersion]).val \in 1..3
    THEN ParseInt(r[SNMPVersion]).val
    ELSE 2

\* C7: the snmp_version of an instance is the integer of the record's
\* SNMPVersion cell when that is 1, 2 or 3 and is 2 in every other case; the
\* run ends in error for a bad port only, whatever the SNMPVersion cells
C7_VersionFallback ==
    /\ \A k \in 1..Len(instances) :
           /\ instances[k].snmp_version \in { 1, 2, 3 }
           /\ instances[k].snmp_version = ExpectedVersion(Yielding[k])
    /\ pc = "error" => exc = "ValueError" /\ BadPort(configs[cursor])
    /\ pc # "error" => Len(instances) = Len(Yielding)

\* C7 happens: an instance of version 2 built from a record whose SNMPVersion
\* is '7'
C7_Witness ==
    /\ Len(instances) >= 1
    /\ Get(Yielding[1], SNMPVersion) = << 55 >>
    /\ instances[1].snmp_version = 2
    /\ pc = "done"

\* C8: an instance has min_collection_interval if and only if the record's
\* PollInterval cell is an integer above 0, and then it is that integer
C8_IntervalIffPositive ==
    /\ \A k \in 1..Len(instances) :
           LET cell == Get(Yielding[k], PollInterval)
               positive == /\ cell # None
                           /\ ParseInt(cell).ok
                           /\ ParseInt(cell).val > 0
           IN /\ "min_collection_interval" \in DOMAIN instances[k] <=> positive
              /\ positive
                 => instances[k].min_collection_interval = ParseInt(cell).val
    /\ pc = "error" => BadPort(configs[cursor])

\* C8 happens: an instance without min_collection_interval built from a
\* record whose PollInterval is '-5'
C8_Witness ==
    /\ Len(instances) >= 1
    /\ Get(Yielding[1], PollInterval) = << 45, 53 >>
    /\ "min_collection_interval" \notin DOMAIN instances[1]
    /\ pc = "done"

\* C9: sanitize_tag applied to its own result gives that result
C9_SanitizeTagIdempotent ==
    Len(tag_history) = 2 => tag_text = tag_history[2]

\* C9 happens: sanitize_tag was applied twice, to '!_a' first, which it
\* changed
C9_Witness ==
    /\ Len(tag_history) = 2
    /\ tag_history[1] = << 33, 95, 97 >>
    /\ tag_history[2] = << 97 >>
    /\ tag_text = << 97 >>

\* C10: the key under which a record stores the cell of a column is the
\* header name of the column sanitized once
C10_KeyIsSanitizedOnce ==
    total_rows >= 1
    => DOMAIN sanitized_row
       = { SanitizeValue(header[i]) : i \in 1..Len(header) }

====
